---- MODULE Spec2Model ----
\* Model of the multi-field weighted resume search engine
\* (src/query/query_resume_db.py, class SimpleResumeSearch), of the similarity
\* oracle it queries and the store behind it (src/storage/chroma_storage.py),
\* and of the extraction pipeline that fills the store (src/wrangle).
\*
\* Numbers.  The program computes with floats; the model computes exactly, in
\* fixed units: a distance is an integer number of tenths (DistOne = 1.0), a
\* similarity an integer number of twentieths (SimOne = 1.0), a weight an
\* integer number of hundredths (WeightOne = 1.0), and a total score an
\* integer number of 1/(SimOne * WeightOne).
EXTENDS Integers, Sequences, FiniteSets, TLC

VARIABLES
    field_weights,      \* self.field_weights: field -> weight
    pc,                 \* position of the search call
    num_results,        \* the argument num_results (k) of search
    fi,                 \* number of fields search has queried so far
    all_field_results,  \* search's local all_field_results, in insertion order
    candidates,         \* the dict calculate_scores returned, in insertion order
    result,             \* the list search returned
    oracle_error,       \* the exception query_resumes raised, or "none"
    error,              \* the exception that left search, or "none"
    calls,              \* the oracle queries this search has issued
    supplied_weights,   \* the weight table the operator wants the engine to use
    other,              \* the locals of a second, suspended call of search
    epc,                \* position of search_resumes after its call of search
    shown,              \* what search_resumes displayed for each candidate
    returned,           \* the list search_resumes returned
    \* ResumeChromaStorage
    stored_space,       \* hnsw:space of the collection the client persists
    collection_space,   \* hnsw:space of self.collection
    entries,            \* the entries of the collection, in the order added
    last_store,         \* the last call of store_resume and what it came to
    jpc,                \* position of store_resumes_from_jsonl
    store_stats,        \* its local stats
    ingested,           \* lines it has read and entries it has added
    \* ResumeInstructorParser.extract_resume_profile
    ppc,                \* position of the call
    text,               \* the argument text
    max_retries,        \* self.max_retries
    attempt,            \* the loop variable attempt
    trace,              \* the LLM calls and the sleeps of the call, in order
    \* ResumeBatchProcessor
    bpc,                \* position of process_directory
    run,                \* its arguments, self.max_workers and the JSONL as found
    pending,            \* the files of pdf_files not yet processed or submitted
    running,            \* the files whose worker has not finished
    completed,          \* the finished futures not yet collected
    stats,              \* the BatchProcessingStats of the run
    successful_profiles,\* the local successful_profiles
    output_files,       \* the per-file JSON files of output_dir
    jsonl,              \* the JSONL file of output_dir
    returns,            \* the calls of process_single_pdf and what they returned
    \* The profile id of one PDF in the two modes of main.py
    pdf_name,           \* the name of the PDF file
    single_id,          \* profile.id after main.process_single_pdf
    batch_id            \* profile.id after ResumeBatchProcessor.process_single_pdf

\* The locals of one call of search.
locals == <<pc, num_results, fi, all_field_results, candidates, result,
            oracle_error, error, calls>>

\* The store and its loader.
storageVars == <<stored_space, collection_space, entries, last_store, jpc,
                 store_stats, ingested>>

\* One call of extract_resume_profile.
parserVars == <<ppc, text, max_retries, attempt, trace>>

\* The batch processor, its run and the files of output_dir.
batchVars == <<bpc, run, pending, running, completed, stats,
               successful_profiles, output_files, jsonl, returns>>

\* The profile id of one PDF in single-file mode and in batch mode.
namingVars == <<pdf_name, single_id, batch_id>>

\* The extraction pipeline and the store it fills.
pipeline == <<storageVars, parserVars, batchVars, namingVars>>

\* What search itself never touches: the second call's locals, the state of
\* the caller search_resumes, and the pipeline.
outside == <<supplied_weights, other, epc, shown, returned, pipeline>>

\* The search engine and its callers.
engine == <<field_weights, locals, supplied_weights, other, epc, shown,
            returned>>

vars == <<field_weights, pc, num_results, fi, all_field_results, candidates,
          result, oracle_error, error, calls, supplied_weights, other, epc,
          shown, returned, pipeline>>

-----------------------------------------------------------------------------
\* Bounds of the model.

\* The largest total number of matches the oracle returns in one search.
MaxMatches == 2
\* The largest num_results tried (the smallest is MinK).
MaxK == 2
\* The largest max_retries a parser is built with.
MaxRetries == 4
\* The number of PDF files pdf_dir may hold.
MaxFiles == 2
\* The largest number of lines read from a JSONL file.
MaxLines == 2
\* The largest number of digits a file name ends with.
MaxDigits == 11

-----------------------------------------------------------------------------
\* Program constants and units.

DistOne == 10
SimOne == 20
WeightOne == 100

\* search(self, query, num_results = 5)
DefaultNumResults == 5
\* search_single_field(..., num_results = 40)
PerFieldCap == 40
\* match['content'][:150]
ExcerptLen == 150

\* The keys of self.field_weights, in the order the dict literal gives them.
FieldOrder ==
    <<"summary", "skills", "work_history", "project_history", "education">>

Fields == {FieldOrder[i] : i \in 1..Len(FieldOrder)}

\* self.field_weights as __init__ sets it (0.3, 0.3, 0.25, 0.1, 0.05).
DefaultFieldWeights ==
    [f \in Fields |->
        CASE f = "summary" -> 30
          [] f = "skills" -> 30
          [] f = "work_history" -> 25
          [] f = "project_history" -> 10
          [] f = "education" -> 5]

\* ResumeInstructorParser.__init__(..., max_retries = 3, ...)
DefaultMaxRetries == 3
\* ResumeBatchProcessor.__init__(..., max_workers = 3)
DefaultMaxWorkers == 3
\* len(text.strip()) < 50
MinTextLen == 50
\* The least number of digits _extract_id_from_filename takes for an id.
MinIdDigits == 10

\* stats = {"processed": 0, "successful": 0, "failed": 0, "total_embeddings": 0}
NewStoreStats ==
    [processed |-> 0, successful |-> 0, failed |-> 0, total_embeddings |-> 0]

\* BatchProcessingStats(), without the two times.
NewStats ==
    [total_files |-> 0, successful |-> 0, failed |-> 0, skipped |-> 0,
     errors |-> <<>>]

\* No call of store_resume yet.
NoStore ==
    [called |-> FALSE, is_dict |-> FALSE, resume |-> <<>>, fails |-> {},
     add_ok |-> TRUE, ret |-> "none", added |-> <<>>]

\* A file that does not exist.
NoFile == [exists |-> FALSE, lines |-> <<>>]

\* A profile id not yet decided.
NoId == [set |-> FALSE, id |-> <<>>]

-----------------------------------------------------------------------------
\* The inputs: what a caller may pass and what the oracle may return.

\* num_results as callers pass it: negative, zero and positive.
KValues == -1..MaxK

ShortContent == <<"a", "b">>
LongContent == [i \in 1..(ExcerptLen + 1) |-> "x"]

\* Distances 0.0, 0.4, 1.0, 2.0 and 3.0.
Distances == {0, 4, 10, 20, 30}

\* One row of a ChromaDB query result (metadatas[0][i], documents[0][i],
\* distances[0][i]).
Row(id, name, content, distance) ==
    [resume_id |-> id, name |-> name, content |-> content,
     distance |-> distance]

\* The rows the oracle may return: the first resume at every distance, a
\* second resume at two distances, the first id under the name of the second,
\* and a long document of the first resume.
RawRows ==
    {Row("r1", "Ann", ShortContent, d) : d \in Distances}
    \cup {Row("r2", "Bob", ShortContent, d) : d \in {4, 10}}
    \cup {Row("r1", "Bob", ShortContent, 10)}
    \cup {Row("r1", "Ann", LongContent, 10)}

RECURSIVE SeqsUpTo(_, _)
\* All sequences over S of length at most n.
SeqsUpTo(S, n) ==
    IF n = 0 THEN {<<>>}
    ELSE LET shorter == SeqsUpTo(S, n - 1)
         IN  shorter \cup {Append(s, x) : s \in {t \in shorter : Len(t) = n - 1},
                                          x \in S}

-----------------------------------------------------------------------------
\* Helpers.

Max(a, b) == IF a >= b THEN a ELSE b
Min(a, b) == IF a <= b THEN a ELSE b

RECURSIVE LStrip(_)
\* A string without its leading blanks.
LStrip(t) == IF t # <<>> /\ Head(t) = " " THEN LStrip(Tail(t)) ELSE t

RECURSIVE RStrip(_)
\* A string without its trailing blanks.
RStrip(t) ==
    IF t # <<>> /\ t[Len(t)] = " " THEN RStrip(SubSeq(t, 1, Len(t) - 1)) ELSE t

\* str.strip()
Strip(t) == RStrip(LStrip(t))

RECURSIVE SumLen(_)
\* The total number of matches in a sequence of match lists.
SumLen(lists) ==
    IF lists = <<>> THEN 0 ELSE Len(Head(lists)) + SumLen(Tail(lists))

\* A variant of SliceTo whose end index is taken as inclusive.
SliceToInclusive(seq, k) ==
    IF k >= 0 THEN SubSeq(seq, 1, Min(k + 1, Len(seq)))
    ELSE SubSeq(seq, 1, Max(0, Len(seq) + k + 1))

\* Python's seq[:k]: the first k items, or all but the last -k when k < 0.
SliceTo(seq, k) ==
    IF k >= 0 THEN SubSeq(seq, 1, Min(k, Len(seq)))
    ELSE SubSeq(seq, 1, Max(0, Len(seq) + k))

-----------------------------------------------------------------------------
\* search_single_field: the conversion of a ChromaDB result into matches.

\* The match built from row `row` of the result for `field`.
ToMatch(field, row) ==
    [resume_id |-> row.resume_id, name |-> row.name, field |-> field,
     content |-> row.content, distance |-> row.distance]

\* The list search_single_field returns (empty when the result has no rows).
ToMatches(field, raw) ==
    [i \in 1..Len(raw) |-> ToMatch(field, raw[i])]

-----------------------------------------------------------------------------
\* calculate_scores.

\* A variant of similarity that subtracts the whole distance, not its half.
similarityNotHalved(distance) ==
    Max(0, SimOne - (distance * SimOne) \div DistOne)

\* A variant of similarity without the clamp at 0.
similarityUnclamped(distance) ==
    SimOne - (distance * SimOne) \div (2 * DistOne)

\* similarity = max(0, 1 - (match['distance'] / 2))
similarity(distance) ==
    Max(0, SimOne - (distance * SimOne) \div (2 * DistOne))

\* A variant of Excerpt that marks only content it has cut.
ExcerptMarkedIfCut(content) ==
    IF Len(content) > ExcerptLen
    THEN SubSeq(content, 1, ExcerptLen) \o <<".", ".", ".">>
    ELSE content

\* match['content'][:150] + "..."
Excerpt(content) ==
    SubSeq(content, 1, Min(ExcerptLen, Len(content))) \o <<".", ".", ".">>

\* The position of resume_id among the keys of the dict, 0 when it is no key.
IndexOf(cands, resume_id) ==
    IF \E i \in 1..Len(cands) : cands[i].resume_id = resume_id
    THEN CHOOSE i \in 1..Len(cands) : cands[i].resume_id = resume_id
    ELSE 0

\* The record a first match of a candidate creates.
NewCandidate(match) ==
    [resume_id |-> match.resume_id, name |-> match.name,
     field_scores |-> <<>>, field_matches |-> <<>>,
     total_score |-> 0, fields_matched |-> 0]

\* A variant of Replaces in which the last match of a field always wins.
ReplacesAlways(rec, field, sim) == TRUE

\* A variant of Replaces in which an equal similarity replaces too.
ReplacesOnTie(rec, field, sim) ==
    field \notin DOMAIN rec.field_scores \/ sim >= rec.field_scores[field]

\* Whether a match with this similarity replaces what rec stores for field.
Replaces(rec, field, sim) ==
    field \notin DOMAIN rec.field_scores \/ sim > rec.field_scores[field]

\* A variant of ProcessMatch that also takes the name from every later match.
ProcessMatchLastName(cands, field, match) ==
    LET sim == similarity(match.distance)
        seen == IF IndexOf(cands, match.resume_id) = 0
                THEN Append(cands, NewCandidate(match))
                ELSE cands
        i == IndexOf(seen, match.resume_id)
        rec == [seen[i] EXCEPT !.name = match.name]
    IN  IF Replaces(rec, field, sim)
        THEN [seen EXCEPT ![i] =
                [rec EXCEPT
                    !.field_scores = (field :> sim) @@ @,
                    !.field_matches = (field :> Excerpt(match.content)) @@ @]]
        ELSE [seen EXCEPT ![i] = rec]

\* The body of the loop over the matches of one field.
ProcessMatch(cands, field, match) ==
    LET sim == similarity(match.distance)
        seen == IF IndexOf(cands, match.resume_id) = 0
                THEN Append(cands, NewCandidate(match))
                ELSE cands
        i == IndexOf(seen, match.resume_id)
        rec == seen[i]
    IN  IF Replaces(rec, field, sim)
        THEN [seen EXCEPT ![i] =
                [rec EXCEPT
                    !.field_scores = (field :> sim) @@ @,
                    !.field_matches = (field :> Excerpt(match.content)) @@ @]]
        ELSE seen

RECURSIVE ProcessMatches(_, _, _)
\* for match in matches
ProcessMatches(cands, field, matches) ==
    IF matches = <<>> THEN cands
    ELSE ProcessMatches(ProcessMatch(cands, field, Head(matches)), field,
                        Tail(matches))

RECURSIVE ProcessFields(_, _)
\* for field, matches in all_field_results.items()
ProcessFields(cands, results) ==
    IF results = <<>> THEN cands
    ELSE ProcessFields(
            ProcessMatches(cands, Head(results).field, Head(results).matches),
            Tail(results))

RECURSIVE WeightedSum(_, _, _)
\* The sum of score * weight over the items of field_scores.  The dict's items
\* come in insertion order, which is the order of FieldOrder because the fields
\* are processed in that order; the sum is taken from position i on.
WeightedSum(weights, field_scores, i) ==
    IF i > Len(FieldOrder) THEN 0
    ELSE (IF FieldOrder[i] \in DOMAIN field_scores
          THEN field_scores[FieldOrder[i]] * weights[FieldOrder[i]]
          ELSE 0)
         + WeightedSum(weights, field_scores, i + 1)

\* A variant of Finalize that adds the scores up without their weights.
FinalizeUnweighted(weights, rec) ==
    [rec EXCEPT
        !.total_score =
            WeightedSum([f \in Fields |-> WeightOne], rec.field_scores, 1),
        !.fields_matched = Cardinality(DOMAIN rec.field_scores)]

\* A variant of Finalize that leaves fields_matched as the record was created.
FinalizeNoCount(weights, rec) ==
    [rec EXCEPT !.total_score = WeightedSum(weights, rec.field_scores, 1)]

\* The body of the loop that sets total_score and fields_matched.
Finalize(weights, rec) ==
    [rec EXCEPT
        !.total_score = WeightedSum(weights, rec.field_scores, 1),
        !.fields_matched = Cardinality(DOMAIN rec.field_scores)]

\* A variant of calculate_scores that leaves out the candidates whose total
\* score is 0.
calculate_scores_nonzero(weights, results) ==
    LET merged == ProcessFields(<<>>, results)
        final == [i \in 1..Len(merged) |-> Finalize(weights, merged[i])]
    IN  SelectSeq(final, LAMBDA rec : rec.total_score > 0)

\* calculate_scores(all_field_results): the dict it returns, in insertion order.
calculate_scores(weights, results) ==
    LET merged == ProcessFields(<<>>, results)
    IN  [i \in 1..Len(merged) |-> Finalize(weights, merged[i])]

-----------------------------------------------------------------------------
\* The ranking step of search.

\* A variant of InsertDesc that sorts ascending (reverse = True forgotten).
InsertAsc(sorted, rec) ==
    LET n == Cardinality({j \in 1..Len(sorted) :
                            sorted[j].total_score <= rec.total_score})
    IN  SubSeq(sorted, 1, n) \o <<rec>> \o SubSeq(sorted, n + 1, Len(sorted))

\* sorted() is stable and reverse = True keeps the order of equal keys: rec goes
\* behind every record whose total_score is at least its own.
InsertDesc(sorted, rec) ==
    LET n == Cardinality({j \in 1..Len(sorted) :
                            sorted[j].total_score >= rec.total_score})
    IN  SubSeq(sorted, 1, n) \o <<rec>> \o SubSeq(sorted, n + 1, Len(sorted))

RECURSIVE SortedByScore(_)
\* sorted(candidates.values(), key = lambda x: x['total_score'], reverse = True)
SortedByScore(cands) ==
    IF cands = <<>> THEN <<>>
    ELSE InsertDesc(SortedByScore(SubSeq(cands, 1, Len(cands) - 1)),
                    cands[Len(cands)])

\* top_candidates[:num_results]
TopCandidates(cands, k) == SliceTo(SortedByScore(cands), k)

-----------------------------------------------------------------------------
\* The state machine.

\* The store before anything was stored: __init__ has created the collection
\* with metadata = {"hnsw:space": "cosine"} in an empty persist_directory.
InitStorage ==
    /\ stored_space = "cosine"
    /\ collection_space = "cosine"
    /\ entries = <<>>
    /\ last_store = NoStore
    /\ jpc = "idle"
    /\ store_stats = NewStoreStats
    /\ ingested = [read |-> 0, added |-> 0]

\* A parser built with max_retries = n, not yet called.
InitParserWith(n) ==
    /\ ppc = "idle"
    /\ text = <<>>
    /\ max_retries = n
    /\ attempt = 0
    /\ trace = <<>>

\* A batch processor built with max_workers = workers over an output_dir that
\* holds the per-file JSON files of `files` and no JSONL.
InitBatchWith(workers, files) ==
    /\ bpc = "idle"
    /\ run = [skip_existing |-> TRUE, max_workers |-> workers,
              pdf_files |-> <<>>, jsonl_before |-> NoFile]
    /\ pending = <<>>
    /\ running = {}
    /\ completed = {}
    /\ stats = NewStats
    /\ successful_profiles = <<>>
    /\ output_files = files
    /\ jsonl = NoFile
    /\ returns = {}

\* A PDF named name, processed in neither mode yet.
InitNamingWith(name) ==
    /\ pdf_name = name
    /\ single_id = NoId
    /\ batch_id = NoId

\* The pipeline as the search engine finds it.
InitPipeline ==
    /\ InitStorage
    /\ InitParserWith(DefaultMaxRetries)
    /\ InitBatchWith(DefaultMaxWorkers, {})
    /\ InitNamingWith(<<>>)

\* No table supplied: the operator leaves the weights to the engine.
NoWeights == <<>>

\* The locals of a call of search that has not started.
IdleLocals ==
    [pc |-> "idle", num_results |-> DefaultNumResults, fi |-> 0,
     all_field_results |-> <<>>, candidates |-> <<>>, result |-> <<>>,
     oracle_error |-> "none", error |-> "none", calls |-> <<>>]

\* The engine once __init__ has run; __init__ takes no weight table and sets
\* the literal one.
InitEngine(supplied) ==
    /\ supplied_weights = supplied
    /\ field_weights = DefaultFieldWeights
    /\ pc = "idle"
    /\ num_results = DefaultNumResults
    /\ fi = 0
    /\ all_field_results = <<>>
    /\ candidates = <<>>
    /\ result = <<>>
    /\ oracle_error = "none"
    /\ error = "none"
    /\ calls = <<>>
    /\ other = IdleLocals
    /\ epc = "search"
    /\ shown = <<>>
    /\ returned = <<>>

\* The state once __init__ has run, for an operator who wants this table.
InitWith(supplied) ==
    /\ InitEngine(supplied)
    /\ InitPipeline

Init == InitWith(NoWeights)

\* A caller calls search(query, num_results = k).
Search(k) ==
    /\ pc = "idle"
    /\ pc' = "query"
    /\ num_results' = k
    /\ fi' = 0
    /\ all_field_results' = <<>>
    /\ candidates' = <<>>
    /\ result' = <<>>
    /\ oracle_error' = "none"
    /\ error' = "none"
    /\ calls' = <<>>
    /\ UNCHANGED field_weights
    /\ UNCHANGED outside

\* The query search_single_field passes to query_resumes for the next field:
\* field_filter = field, n_results = 40.
NextCall == [field |-> FieldOrder[fi + 1], n_results |-> PerFieldCap]

\* A variant of SearchSingleField that raises when the oracle has no match.
SearchSingleFieldEmptyRaises(raw) ==
    /\ pc = "query"
    /\ fi < Len(FieldOrder)
    /\ Len(raw) <= NextCall.n_results
    /\ calls' = Append(calls, NextCall)
    /\ IF raw = <<>>
       THEN /\ error' = "EmptyQueryResult"
            /\ pc' = "failed"
            /\ UNCHANGED <<all_field_results, fi>>
       ELSE /\ all_field_results' =
                Append(all_field_results,
                       [field |-> FieldOrder[fi + 1],
                        matches |-> ToMatches(FieldOrder[fi + 1], raw)])
            /\ fi' = fi + 1
            /\ UNCHANGED <<pc, error>>
    /\ UNCHANGED <<field_weights, num_results, candidates, result,
                   oracle_error>>
    /\ UNCHANGED outside

\* A variant of SearchSingleField that reuses, without a query, what an earlier
\* finished search got for the field.
SearchSingleFieldReuse(raw) ==
    /\ pc = "query"
    /\ fi < Len(FieldOrder)
    /\ Len(raw) <= NextCall.n_results
    /\ IF other.pc = "done"
       THEN /\ calls' = calls
            /\ all_field_results' =
                Append(all_field_results, other.all_field_results[fi + 1])
       ELSE /\ calls' = Append(calls, NextCall)
            /\ all_field_results' =
                Append(all_field_results,
                       [field |-> FieldOrder[fi + 1],
                        matches |-> ToMatches(FieldOrder[fi + 1], raw)])
    /\ fi' = fi + 1
    /\ UNCHANGED <<field_weights, pc, num_results, candidates, result,
                   oracle_error, error>>
    /\ UNCHANGED outside

\* Step 1, one field: query_resumes returns raw (at most n_results rows) and
\* search_single_field converts it.
SearchSingleField(raw) ==
    /\ pc = "query"
    /\ fi < Len(FieldOrder)
    /\ Len(raw) <= NextCall.n_results
    /\ calls' = Append(calls, NextCall)
    /\ all_field_results' =
        Append(all_field_results,
               [field |-> FieldOrder[fi + 1],
                matches |-> ToMatches(FieldOrder[fi + 1], raw)])
    /\ fi' = fi + 1
    /\ UNCHANGED <<field_weights, pc, num_results, candidates, result,
                   oracle_error, error>>
    /\ UNCHANGED outside

\* A variant of OracleFails in which search_single_field catches the exception
\* and carries on with no matches for the field.
OracleFailsSwallowed ==
    /\ pc = "query"
    /\ fi < Len(FieldOrder)
    /\ calls' = Append(calls, NextCall)
    /\ oracle_error' = "OracleQueryFailure"
    /\ all_field_results' =
        Append(all_field_results,
               [field |-> FieldOrder[fi + 1], matches |-> <<>>])
    /\ fi' = fi + 1
    /\ UNCHANGED <<field_weights, pc, num_results, candidates, result, error>>
    /\ UNCHANGED outside

\* Step 1, one field: query_resumes raises (it logs and re-raises), and neither
\* search_single_field nor search catches, so the exception leaves search.
OracleFails ==
    /\ pc = "query"
    /\ fi < Len(FieldOrder)
    /\ calls' = Append(calls, NextCall)
    /\ oracle_error' = "OracleQueryFailure"
    /\ error' = "OracleQueryFailure"
    /\ pc' = "failed"
    /\ UNCHANGED <<field_weights, num_results, fi, all_field_results,
                   candidates, result>>
    /\ UNCHANGED outside

\* A variant of CalculateScores that runs as soon as one field has answered.
CalculateScoresEarly ==
    /\ pc = "query"
    /\ fi >= 1
    /\ candidates' = calculate_scores(field_weights, all_field_results)
    /\ pc' = "rank"
    /\ UNCHANGED <<field_weights, num_results, fi, all_field_results, result,
                   oracle_error, error, calls>>
    /\ UNCHANGED outside

\* A variant of CalculateScores that keeps the records in a dict of the engine,
\* which the other call of search fills too.
CalculateScoresShared ==
    /\ pc = "query"
    /\ fi = Len(FieldOrder)
    /\ candidates' =
        LET merged == ProcessFields(other.candidates, all_field_results)
        IN  [i \in 1..Len(merged) |-> Finalize(field_weights, merged[i])]
    /\ pc' = "rank"
    /\ UNCHANGED <<field_weights, num_results, fi, all_field_results, result,
                   oracle_error, error, calls>>
    /\ UNCHANGED outside

\* Step 2: candidates = self.calculate_scores(all_field_results).
CalculateScores ==
    /\ pc = "query"
    /\ fi = Len(FieldOrder)
    /\ candidates' = calculate_scores(field_weights, all_field_results)
    /\ pc' = "rank"
    /\ UNCHANGED <<field_weights, num_results, fi, all_field_results, result,
                   oracle_error, error, calls>>
    /\ UNCHANGED outside

\* A variant of Rank that sorts and cuts the aggregated records in place.
RankInPlace ==
    /\ pc = "rank"
    /\ result' = TopCandidates(candidates, num_results)
    /\ candidates' = result'
    /\ pc' = "done"
    /\ UNCHANGED <<field_weights, num_results, fi, all_field_results,
                   oracle_error, error, calls>>
    /\ UNCHANGED outside

\* Whether seq holds the records of cands, each once, by descending score.
IsDescendingOrderOf(seq, cands) ==
    /\ Len(seq) = Len(cands)
    /\ {seq[i] : i \in 1..Len(seq)} = {cands[i] : i \in 1..Len(cands)}
    /\ \A i, j \in 1..Len(seq) :
        i < j => seq[i].total_score >= seq[j].total_score

\* A variant of Rank whose sort leaves the order of equal scores open.
RankAnyTieOrder ==
    /\ pc = "rank"
    /\ \E order \in [1..Len(candidates) -> 1..Len(candidates)] :
        LET seq == [i \in 1..Len(candidates) |-> candidates[order[i]]]
        IN  /\ IsDescendingOrderOf(seq, candidates)
            /\ result' = SliceTo(seq, num_results)
    /\ pc' = "done"
    /\ UNCHANGED <<field_weights, num_results, fi, all_field_results,
                   candidates, oracle_error, error, calls>>
    /\ UNCHANGED outside

\* Step 3: sort by total score and return top_candidates[:num_results].
Rank ==
    /\ pc = "rank"
    /\ result' = TopCandidates(candidates, num_results)
    /\ pc' = "done"
    /\ UNCHANGED <<field_weights, num_results, fi, all_field_results,
                   candidates, oracle_error, error, calls>>
    /\ UNCHANGED outside

\* The matches the oracle may still return within the bound of the model.
Budget == MaxMatches - SumLen([i \in 1..Len(all_field_results) |->
                                  all_field_results[i].matches])

Next ==
    \/ \E k \in KValues : Search(k)
    \/ \E raw \in SeqsUpTo(RawRows, Budget) : SearchSingleField(raw)
    \/ OracleFails
    \/ CalculateScores
    \/ Rank

Spec == Init /\ [][Next]_vars

-----------------------------------------------------------------------------
\* Two calls of search on one engine, from two threads of the caller.

\* The locals of the running call, as a record.
Current ==
    [pc |-> pc, num_results |-> num_results, fi |-> fi,
     all_field_results |-> all_field_results, candidates |-> candidates,
     result |-> result, oracle_error |-> oracle_error, error |-> error,
     calls |-> calls]

\* The interpreter switches threads: the running call of search is suspended
\* with its locals and the other call goes on with its own.  The engine's
\* attributes are the same object for both.
Switch ==
    /\ epc = "search"
    /\ other' = Current
    /\ pc' = other.pc
    /\ num_results' = other.num_results
    /\ fi' = other.fi
    /\ all_field_results' = other.all_field_results
    /\ candidates' = other.candidates
    /\ result' = other.result
    /\ oracle_error' = other.oracle_error
    /\ error' = other.error
    /\ calls' = other.calls
    /\ UNCHANGED <<field_weights, supplied_weights, epc, shown, returned>>
    /\ UNCHANGED pipeline

\* The rows of a collection that holds the skills of two resumes, both at
\* distance 1.0 from the query.
TwoRows ==
    {Row("r1", "Ann", ShortContent, DistOne),
     Row("r2", "Bob", ShortContent, DistOne)}

\* What the oracle may answer for the field at position i of FieldOrder.
TwoRaws(i) ==
    IF FieldOrder[i] = "skills" THEN SeqsUpTo(TwoRows, MaxMatches) ELSE {<<>>}

NextTwo ==
    \/ \E k \in 1..MaxK : Search(k)
    \/ /\ fi < Len(FieldOrder)
       /\ \E raw \in TwoRaws(fi + 1) : SearchSingleField(raw)
    \/ OracleFails
    \/ CalculateScores
    \/ Rank
    \/ Switch

SpecTwo == Init /\ [][NextTwo]_vars

-----------------------------------------------------------------------------
\* search_resumes (src/examples/example_search.py): a search, then the display
\* of every ranked candidate with the summary fetched from the store.

\* What fetching a candidate's record may come to: the record is found, no
\* record has the id, the store fails inside get_resume_by_id, or something
\* in the try block of search_resumes raises.
FetchOutcomes == {"found", "not_found", "store_error", "raised"}

\* get_resume_by_id: the record, or {} when there is none or when the store
\* failed (it catches the exception and returns {}).
get_resume_by_id(resume_id, outcome) ==
    IF outcome = "found"
    THEN [id |-> resume_id, summary |-> "text"]
    ELSE <<>>

\* What the body of the loop prints for a candidate: the summary, the default
\* 'No summary available', or the warning of the except branch.
Display(resume_id, outcome) ==
    IF outcome = "raised" THEN "warning"
    ELSE IF "summary" \in DOMAIN get_resume_by_id(resume_id, outcome)
         THEN "summary"
         ELSE "No summary available"

\* A variant of Enrich in which a failed fetch ends the loop and the function
\* returns the candidates displayed so far.
EnrichAborts(outcome) ==
    /\ pc = "done"
    /\ epc \in {"search", "display"}
    /\ Len(shown) < Len(result)
    /\ IF outcome = "found"
       THEN /\ shown' = Append(shown,
                    [resume_id |-> result[Len(shown) + 1].resume_id,
                     display |-> Display(result[Len(shown) + 1].resume_id,
                                         outcome)])
            /\ epc' = "display"
            /\ UNCHANGED returned
       ELSE /\ returned' = SubSeq(result, 1, Len(shown))
            /\ epc' = "returned"
            /\ UNCHANGED shown
    /\ UNCHANGED <<field_weights, supplied_weights, other>>
    /\ UNCHANGED locals
    /\ UNCHANGED pipeline

\* One turn of the loop over results: the candidate's line is printed, its
\* record fetched and its summary, or the warning, printed.
Enrich(outcome) ==
    /\ pc = "done"
    /\ epc \in {"search", "display"}
    /\ Len(shown) < Len(result)
    /\ shown' = Append(shown,
            [resume_id |-> result[Len(shown) + 1].resume_id,
             display |-> Display(result[Len(shown) + 1].resume_id, outcome)])
    /\ epc' = "display"
    /\ UNCHANGED <<field_weights, supplied_weights, other, returned>>
    /\ UNCHANGED locals
    /\ UNCHANGED pipeline

\* return results, after the loop or after 'No candidates found.'
ReturnResults ==
    /\ pc = "done"
    /\ epc \in {"search", "display"}
    /\ Len(shown) = Len(result)
    /\ returned' = result
    /\ epc' = "returned"
    /\ UNCHANGED <<field_weights, supplied_weights, other, shown>>
    /\ UNCHANGED locals
    /\ UNCHANGED pipeline

NextEnrich ==
    \/ \E k \in 0..MaxK : Search(k)
    \/ /\ fi < Len(FieldOrder)
       /\ \E raw \in TwoRaws(fi + 1) : SearchSingleField(raw)
    \/ OracleFails
    \/ CalculateScores
    \/ Rank
    \/ \E outcome \in FetchOutcomes : Enrich(outcome)
    \/ ReturnResults

SpecEnrich == Init /\ [][NextEnrich]_vars

-----------------------------------------------------------------------------
\* An engine for an operator who may want another weight table.

\* A table an operator may want: skills first.
CustomWeights ==
    [f \in Fields |->
        CASE f = "summary" -> 20
          [] f = "skills" -> 50
          [] f = "work_history" -> 20
          [] f = "project_history" -> 5
          [] f = "education" -> 5]

InitConfig == \E supplied \in {NoWeights, CustomWeights} : InitWith(supplied)

SpecConfig == InitConfig /\ [][Next]_vars

-----------------------------------------------------------------------------
\* The worked example of the scoring: matches at distances 0.2 and 0.4.

\* The rows of a collection in which the first resume lies at distance 0.2 or
\* 0.4 from the query and the second at 0.4.
ExampleRows ==
    {Row("r1", "Ann", ShortContent, 2),
     Row("r1", "Ann", ShortContent, 4),
     Row("r2", "Bob", ShortContent, 4)}

NextExample ==
    \/ \E k \in 1..MaxK : Search(k)
    \/ \E raw \in SeqsUpTo(ExampleRows, Budget) : SearchSingleField(raw)
    \/ OracleFails
    \/ CalculateScores
    \/ Rank

SpecExample == Init /\ [][NextExample]_vars

-----------------------------------------------------------------------------
\* The collection behind the oracle (ResumeChromaStorage.__init__ and
\* reset_collection) and the distances its queries hand to the search.

\* The space of a collection created without metadata: ChromaDB's default,
\* squared L2.
DefaultSpace == "l2"

\* The distances a query may return: cosine distance lies in [0, 2], squared
\* L2 distance between normalized embeddings in [0, 4].
SpaceDistances(space) ==
    IF space = "cosine" THEN {0, DistOne, 2 * DistOne}
    ELSE {0, DistOne, 2 * DistOne, 3 * DistOne, 4 * DistOne}

\* The rows a query of a collection with this space may return.
SpaceRows(space) ==
    {Row("r1", "Ann", ShortContent, d) : d \in SpaceDistances(space)}

\* A new ResumeChromaStorage on the same persist_directory:
\* get_or_create_collection(name, metadata = {"hnsw:space": "cosine"}) creates
\* the collection if there is none and returns the existing one as it is.
Construct ==
    /\ pc = "idle"
    /\ stored_space' = IF stored_space = "none" THEN "cosine" ELSE stored_space
    /\ collection_space' = stored_space'
    /\ UNCHANGED <<entries, last_store, jpc, store_stats, ingested>>
    /\ UNCHANGED <<parserVars, batchVars, namingVars>>
    /\ UNCHANGED engine

\* reset_collection: delete_collection(name), then
\* get_or_create_collection(name = name) without metadata.  When the creation
\* fails the collection is gone and self.collection is the deleted one.
ResetCollection(outcome) ==
    /\ collection_space # "deleted"
    /\ entries' = <<>>
    /\ IF outcome = "ok"
       THEN /\ stored_space' = DefaultSpace
            /\ collection_space' = DefaultSpace
       ELSE /\ stored_space' = "none"
            /\ collection_space' = "deleted"
    /\ UNCHANGED <<last_store, jpc, store_stats, ingested>>
    /\ UNCHANGED <<parserVars, batchVars, namingVars>>
    /\ UNCHANGED engine

NextStorage ==
    \/ Construct
    \/ \E outcome \in {"ok", "create_fails"} : ResetCollection(outcome)
    \/ \E k \in 1..MaxK : Search(k)
    \/ /\ collection_space # "deleted"
       /\ \E raw \in SeqsUpTo(SpaceRows(collection_space), Budget) :
            SearchSingleField(raw)
    \/ OracleFails
    \/ CalculateScores
    \/ Rank

SpecStorage == Init /\ [][NextStorage]_vars

-----------------------------------------------------------------------------
\* ResumeChromaStorage: process_resume, store_resume and
\* store_resumes_from_jsonl.

\* self.embeddable_fields
embeddable_fields ==
    <<"summary", "skills", "work_history", "project_history", "education">>

\* The values a key of a parsed JSON object may have: a string, null, or a
\* value that is neither, here a list with an element.
Str(chars) == [type |-> "str", chars |-> chars]
Null == [type |-> "null", chars |-> <<>>]
List == [type |-> "list", chars |-> <<"t">>]

\* The resumes a line may hold: two fields with content; no content (an empty
\* and a blank field); content and a null field; content and a field that is
\* no string; one field with content.
Resumes ==
    {[id |-> Str(<<"1">>), summary |-> Str(<<"t">>), skills |-> Str(<<"t">>)],
     [id |-> Str(<<"2">>), summary |-> Str(<<>>), skills |-> Str(<<" ">>)],
     [id |-> Str(<<"3">>), summary |-> Str(<<"t">>), skills |-> Null],
     [id |-> Str(<<"4">>), summary |-> Str(<<"t">>), skills |-> List],
     [id |-> Str(<<"5">>), education |-> Str(<<" ", "t">>)]}

\* The lines of a JSONL file: text that is no JSON, JSON that is no object
\* (json.loads returns a list), or a resume.
JsonLine(kind, resume) == [kind |-> kind, resume |-> resume]
Lines ==
    {JsonLine("invalid", <<>>), JsonLine("array", <<>>)}
    \cup {JsonLine("object", r) : r \in Resumes}

\* resume.get(field, "")
Get(resume, field) ==
    IF field \in DOMAIN resume THEN resume[field] ELSE Str(<<>>)

\* not content
IsFalsy(v) == v.type = "null" \/ (v.type = "str" /\ v.chars = <<>>)

RECURSIVE process_resume_from(_, _, _)
\* The loop of process_resume from embeddable_fields[i] on: the entries it
\* appends, or raised when content.strip() is called on a value without strip
\* (that call is outside the try of the loop body).  The fields in `fails` are
\* those whose embed_text raises; the except of the loop body skips them.
process_resume_from(resume, fails, i) ==
    IF i > Len(embeddable_fields) THEN [raised |-> FALSE, entries |-> <<>>]
    ELSE LET field == embeddable_fields[i]
             content == Get(resume, field)
             rest == process_resume_from(resume, fails, i + 1)
         IN  IF IsFalsy(content) THEN rest
             ELSE IF content.type # "str"
             THEN [raised |-> TRUE, entries |-> <<>>]
             ELSE IF Strip(content.chars) = <<>> \/ field \in fails
             THEN rest
             ELSE IF rest.raised THEN rest
             ELSE [raised |-> FALSE,
                   entries |-> <<[resume_id |-> Get(resume, "id").chars,
                                  field |-> field]>> \o rest.entries]

\* process_resume(resume)
process_resume(resume, fails) == process_resume_from(resume, fails, 1)

\* store_resume(resume): what it returns ("raised" when an exception leaves
\* it) and the entries it adds.  For a value that is no dict resume.get raises
\* in process_resume and again in the except branch of store_resume, whose
\* log message calls resume.get too.  add_ok tells whether collection.add
\* succeeds.
store_resume(is_dict, resume, fails, add_ok) ==
    IF ~is_dict THEN [ret |-> "raised", added |-> <<>>]
    ELSE LET processed == process_resume(resume, fails)
         IN  IF processed.raised \/ processed.entries = <<>> \/ ~add_ok
             THEN [ret |-> "False", added |-> <<>>]
             ELSE [ret |-> "True", added |-> processed.entries]

\* The record of a call of store_resume in last_store.
Stored(is_dict, resume, fails, add_ok, out) ==
    [called |-> TRUE, is_dict |-> is_dict, resume |-> resume, fails |-> fails,
     add_ok |-> add_ok, ret |-> out.ret, added |-> out.added]

RECURSIVE field_count_from(_, _)
\* sum(1 for field in self.embeddable_fields if resume.get(field, "").strip())
\* from embeddable_fields[i] on: the count, or raised when a value has no
\* strip.
field_count_from(resume, i) ==
    IF i > Len(embeddable_fields) THEN [raised |-> FALSE, count |-> 0]
    ELSE LET content == Get(resume, embeddable_fields[i])
             rest == field_count_from(resume, i + 1)
         IN  IF content.type # "str" \/ rest.raised
             THEN [raised |-> TRUE, count |-> 0]
             ELSE [raised |-> FALSE,
                   count |-> rest.count
                             + (IF Strip(content.chars) # <<>> THEN 1 ELSE 0)]

\* The body of the loop over the lines, on stats: json.loads, the call of
\* store_resume with the result out, and the count of the embeddings; the two
\* except branches count a failure.
CountLine(st, line, out) ==
    IF line.kind = "invalid" THEN [st EXCEPT !.failed = @ + 1]
    ELSE LET read == [st EXCEPT !.processed = @ + 1]
         IN  IF out.ret = "True"
             THEN LET counted == [read EXCEPT !.successful = @ + 1]
                      fields == field_count_from(line.resume, 1)
                  IN  IF fields.raised
                      THEN [counted EXCEPT !.failed = @ + 1]
                      ELSE [counted EXCEPT
                                !.total_embeddings = @ + fields.count]
             ELSE [read EXCEPT !.failed = @ + 1]

\* store_resumes_from_jsonl(jsonl_path) up to the loop, for a file that exists.
StoreResumesFromJsonl ==
    /\ jpc = "idle"
    /\ jpc' = "lines"
    /\ store_stats' = NewStoreStats
    /\ ingested' = [read |-> 0, added |-> 0]
    /\ UNCHANGED <<stored_space, collection_space, entries, last_store>>
    /\ UNCHANGED <<parserVars, batchVars, namingVars>>
    /\ UNCHANGED engine

\* One turn of the loop over the lines of the file.
ReadLine(line, fails, add_ok) ==
    /\ jpc = "lines"
    /\ ingested.read < MaxLines
    /\ collection_space # "deleted"
    /\ IF line.kind = "invalid"
       THEN /\ store_stats' = CountLine(store_stats, line, NoStore)
            /\ ingested' = [ingested EXCEPT !.read = @ + 1]
            /\ UNCHANGED <<entries, last_store>>
       ELSE LET is_dict == line.kind = "object"
                out == store_resume(is_dict, line.resume, fails, add_ok)
            IN  /\ store_stats' = CountLine(store_stats, line, out)
                /\ entries' = entries \o out.added
                /\ last_store' =
                        Stored(is_dict, line.resume, fails, add_ok, out)
                /\ ingested' = [read |-> ingested.read + 1,
                                added |-> ingested.added + Len(out.added)]
    /\ UNCHANGED <<stored_space, collection_space, jpc>>
    /\ UNCHANGED <<parserVars, batchVars, namingVars>>
    /\ UNCHANGED engine

\* The file has no more lines: return stats.
ReturnStats ==
    /\ jpc = "lines"
    /\ jpc' = "returned"
    /\ UNCHANGED <<stored_space, collection_space, entries, last_store,
                   store_stats, ingested>>
    /\ UNCHANGED <<parserVars, batchVars, namingVars>>
    /\ UNCHANGED engine

\* The fields whose embed_text may raise in one call of store_resume.
FailSets == SUBSET {"summary", "skills"}

NextIngest ==
    \/ StoreResumesFromJsonl
    \/ \E line \in Lines : \E fails \in FailSets : \E add_ok \in BOOLEAN :
            ReadLine(line, fails, add_ok)
    \/ ReturnStats

SpecIngest == Init /\ [][NextIngest]_vars

-----------------------------------------------------------------------------
\* ResumeInstructorParser.extract_resume_profile: the retry loop around the
\* LLM call.

\* n copies of the character c.
Chars(c, n) == [i \in 1..n |-> c]

\* The texts a caller may pass: empty, blank, one character too short, too
\* short once stripped, just long enough, and long enough with padding.
Texts ==
    {<<>>,
     Chars(" ", MinTextLen + 10),
     Chars("x", MinTextLen - 1),
     Chars(" ", 5) \o Chars("x", MinTextLen - 1) \o Chars(" ", 5),
     Chars("x", MinTextLen),
     <<" ">> \o Chars("x", MinTextLen) \o <<" ">>}

\* not text or len(text.strip()) < 50
TooShort(t) == t = <<>> \/ Len(Strip(t)) < MinTextLen

RECURSIVE Pow2(_)
\* 2 ** n
Pow2(n) == IF n <= 0 THEN 1 ELSE 2 * Pow2(n - 1)

\* What a call of self.client.chat.completions.create may come to: a profile,
\* an error of the API, or a response that fails the validation of the schema.
CallOutcomes == {"ok", "api_error", "invalid_response"}

\* The entries of trace.
Call(outcome) == [op |-> "call", outcome |-> outcome, seconds |-> 0]
Sleep(seconds) == [op |-> "sleep", outcome |-> "none", seconds |-> seconds]

\* extract_resume_profile(text, basic_links) up to the first attempt: the
\* check of the text and the entry of the loop, which range(max_retries)
\* leaves at once when max_retries is 0.
ExtractResumeProfile(t) ==
    /\ ppc = "idle"
    /\ text' = t
    /\ attempt' = 0
    /\ trace' = <<>>
    /\ ppc' = IF TooShort(t) \/ max_retries <= 0 THEN "raised" ELSE "attempt"
    /\ UNCHANGED max_retries
    /\ UNCHANGED <<storageVars, batchVars, namingVars>>
    /\ UNCHANGED engine

\* An attempt whose call returns a profile: the metadata is added and the
\* profile returned.
AttemptSucceeds ==
    /\ ppc = "attempt"
    /\ trace' = Append(trace, Call("ok"))
    /\ ppc' = "returned"
    /\ UNCHANGED <<text, max_retries, attempt>>
    /\ UNCHANGED <<storageVars, batchVars, namingVars>>
    /\ UNCHANGED engine

\* A variant of AttemptFails that sleeps after the last attempt too.
AttemptFailsSleepsAlways(outcome) ==
    /\ ppc = "attempt"
    /\ outcome # "ok"
    /\ trace' = trace \o <<Call(outcome), Sleep(Pow2(attempt))>>
    /\ IF attempt < max_retries - 1
       THEN /\ attempt' = attempt + 1
            /\ ppc' = "attempt"
       ELSE /\ attempt' = attempt
            /\ ppc' = "raised"
    /\ UNCHANGED <<text, max_retries>>
    /\ UNCHANGED <<storageVars, batchVars, namingVars>>
    /\ UNCHANGED engine

\* An attempt whose call raises: the except branch, which sleeps 2 ** attempt
\* seconds unless the attempt was the last, and then the next turn of the
\* loop or, after the last, the raise of InstructorParsingError.
AttemptFails(outcome) ==
    /\ ppc = "attempt"
    /\ outcome # "ok"
    /\ IF attempt < max_retries - 1
       THEN /\ trace' = trace \o <<Call(outcome), Sleep(Pow2(attempt))>>
            /\ attempt' = attempt + 1
            /\ ppc' = "attempt"
       ELSE /\ trace' = Append(trace, Call(outcome))
            /\ attempt' = attempt
            /\ ppc' = "raised"
    /\ UNCHANGED <<text, max_retries>>
    /\ UNCHANGED <<storageVars, batchVars, namingVars>>
    /\ UNCHANGED engine

\* A parser built with any max_retries from 0 on.
InitParser ==
    /\ \E n \in 0..MaxRetries : InitParserWith(n)
    /\ InitStorage
    /\ InitBatchWith(DefaultMaxWorkers, {})
    /\ InitNamingWith(<<>>)
    /\ InitEngine(NoWeights)

NextParser ==
    \/ \E t \in Texts : ExtractResumeProfile(t)
    \/ AttemptSucceeds
    \/ \E outcome \in CallOutcomes : AttemptFails(outcome)

SpecParser == InitParser /\ [][NextParser]_vars

-----------------------------------------------------------------------------
\* ResumeBatchProcessor: process_single_pdf and process_directory.

\* The PDF files pdf_dir may hold, by number; file f has the stem of its own.
Files == 1..MaxFiles

\* How far the processing of a file that is not skipped gets: the extraction
\* raises PDFExtractionError, the text fails validate_extracted_text, the
\* parser raises InstructorParsingError, opening the output file fails,
\* writing it fails half way, or all goes well.
Fates == {"extract_fails", "invalid_text", "parse_fails", "open_fails",
          "dump_fails", "ok"}

\* The profile extracted from file f.
Profile(f) == [file |-> f]

\* The tuple process_single_pdf returns, with None as the empty sequence for
\* the profile and as "None" for the message, and what the call did: whether
\* it called extract_pdf_text, whether it called extract_resume_profile, and
\* what it left in the output file ("no": it did not open it).
Outcome(success, profile, error_msg, extracted, parsed, written) ==
    [success |-> success, profile |-> profile, error |-> error_msg,
     raised |-> FALSE, extracted |-> extracted, parsed |-> parsed,
     written |-> written]

\* A variant of process_single_pdf without the outer except: a failure to
\* write the output file leaves the function as an exception.
process_single_pdf_unguarded(f, skip_existing, files, fate) ==
    IF skip_existing /\ f \in DOMAIN files
    THEN Outcome(TRUE, <<>>, "skipped", FALSE, FALSE, "no")
    ELSE CASE fate = "extract_fails" ->
                Outcome(FALSE, <<>>, "PDF extraction failed", TRUE, FALSE, "no")
           [] fate = "invalid_text" ->
                Outcome(FALSE, <<>>, "Extracted text failed validation",
                        TRUE, FALSE, "no")
           [] fate = "parse_fails" ->
                Outcome(FALSE, <<>>, "Instructor parsing failed",
                        TRUE, TRUE, "no")
           [] fate = "open_fails" ->
                [Outcome(FALSE, <<>>, "None", TRUE, TRUE, "no")
                    EXCEPT !.raised = TRUE]
           [] fate = "dump_fails" ->
                [Outcome(FALSE, <<>>, "None", TRUE, TRUE, "partial")
                    EXCEPT !.raised = TRUE]
           [] OTHER ->
                Outcome(TRUE, <<Profile(f)>>, "None", TRUE, TRUE, "json")

\* A variant of process_single_pdf that looks for the output file only after
\* the extraction and the parsing.
process_single_pdf_late_skip(f, skip_existing, files, fate) ==
    CASE fate = "extract_fails" ->
            Outcome(FALSE, <<>>, "PDF extraction failed", TRUE, FALSE, "no")
      [] fate = "invalid_text" ->
            Outcome(FALSE, <<>>, "Extracted text failed validation",
                    TRUE, FALSE, "no")
      [] fate = "parse_fails" ->
            Outcome(FALSE, <<>>, "Instructor parsing failed", TRUE, TRUE, "no")
      [] OTHER ->
            IF skip_existing /\ f \in DOMAIN files
            THEN Outcome(TRUE, <<>>, "skipped", TRUE, TRUE, "no")
            ELSE CASE fate = "open_fails" ->
                        Outcome(FALSE, <<>>, "Unexpected error",
                                TRUE, TRUE, "no")
                   [] fate = "dump_fails" ->
                        Outcome(FALSE, <<>>, "Unexpected error",
                                TRUE, TRUE, "partial")
                   [] OTHER ->
                        Outcome(TRUE, <<Profile(f)>>, "None",
                                TRUE, TRUE, "json")

\* process_single_pdf(pdf_path, skip_existing) for the file f, the output files
\* `files` and the fate of the processing.
process_single_pdf(f, skip_existing, files, fate) ==
    IF skip_existing /\ f \in DOMAIN files
    THEN Outcome(TRUE, <<>>, "skipped", FALSE, FALSE, "no")
    ELSE CASE fate = "extract_fails" ->
                Outcome(FALSE, <<>>, "PDF extraction failed", TRUE, FALSE, "no")
           [] fate = "invalid_text" ->
                Outcome(FALSE, <<>>, "Extracted text failed validation",
                        TRUE, FALSE, "no")
           [] fate = "parse_fails" ->
                Outcome(FALSE, <<>>, "Instructor parsing failed",
                        TRUE, TRUE, "no")
           [] fate = "open_fails" ->
                Outcome(FALSE, <<>>, "Unexpected error", TRUE, TRUE, "no")
           [] fate = "dump_fails" ->
                Outcome(FALSE, <<>>, "Unexpected error", TRUE, TRUE, "partial")
           [] OTHER ->
                Outcome(TRUE, <<Profile(f)>>, "None", TRUE, TRUE, "json")

\* The output files after a call that left `written` in the file of f.
FilesAfter(files, f, written) ==
    IF written = "no" THEN files ELSE (f :> written) @@ files

\* The record of a call in returns.
Returned(f, files, out) ==
    [file |-> f, skip_existing |-> run.skip_existing,
     existed |-> f \in DOMAIN files,
     before |-> IF f \in DOMAIN files THEN files[f] ELSE "absent",
     after |-> IF f \in DOMAIN FilesAfter(files, f, out.written)
               THEN FilesAfter(files, f, out.written)[f] ELSE "absent",
     out |-> out]

\* A variant of Tally that leaves the skipped files uncounted.
TallySkippedUncounted(st, profiles, f, out) ==
    IF out.raised
    THEN [stats |-> [st EXCEPT
                        !.failed = @ + 1,
                        !.errors = Append(@, [file |-> f,
                                    error |-> "Future execution failed"])],
          profiles |-> profiles]
    ELSE IF out.success /\ out.profile # <<>>
    THEN [stats |-> [st EXCEPT !.successful = @ + 1],
          profiles |-> profiles \o out.profile]
    ELSE IF out.success
    THEN [stats |-> st, profiles |-> profiles]
    ELSE [stats |-> [st EXCEPT
                        !.failed = @ + 1,
                        !.errors = Append(@, [file |-> f,
                                    error |-> IF out.error \in {"None", ""}
                                              THEN "Unknown error"
                                              ELSE out.error])],
          profiles |-> profiles]

\* What the collecting thread does with the result of one file: the three
\* branches on (success, profile), and in thread-pool mode the except branch
\* for a future that raised.
Tally(st, profiles, f, out) ==
    IF out.raised
    THEN [stats |-> [st EXCEPT
                        !.failed = @ + 1,
                        !.errors = Append(@, [file |-> f,
                                    error |-> "Future execution failed"])],
          profiles |-> profiles]
    ELSE IF out.success /\ out.profile # <<>>
    THEN [stats |-> [st EXCEPT !.successful = @ + 1],
          profiles |-> profiles \o out.profile]
    ELSE IF out.success
    THEN [stats |-> [st EXCEPT !.skipped = @ + 1], profiles |-> profiles]
    ELSE [stats |-> [st EXCEPT
                        !.failed = @ + 1,
                        !.errors = Append(@, [file |-> f,
                                    error |-> IF out.error \in {"None", ""}
                                              THEN "Unknown error"
                                              ELSE out.error])],
          profiles |-> profiles]

\* The files of `found` in the order of their numbers.
RECURSIVE Listed(_, _)
Listed(found, f) ==
    IF f > MaxFiles THEN <<>>
    ELSE (IF f \in found THEN <<f>> ELSE <<>>) \o Listed(found, f + 1)

\* process_directory(pdf_dir, output_jsonl, skip_existing) up to the loop:
\* pdf_dir holds the files `found`, those of the run before and any that have
\* arrived since.  Without files it returns a new BatchProcessingStats; with
\* max_workers = 1 it goes through them in turn, otherwise it submits them all
\* to the pool.
ProcessDirectory(found, skip_existing) ==
    /\ bpc \in {"idle", "returned", "raised"}
    /\ {run.pdf_files[i] : i \in 1..Len(run.pdf_files)} \subseteq found
    /\ run' = [run EXCEPT !.skip_existing = skip_existing,
                          !.pdf_files = Listed(found, 1),
                          !.jsonl_before = jsonl]
    /\ successful_profiles' = <<>>
    /\ returns' = {}
    /\ completed' = {}
    /\ IF found = {}
       THEN /\ stats' = NewStats
            /\ bpc' = "returned"
            /\ pending' = <<>>
            /\ running' = {}
       ELSE /\ stats' = [NewStats EXCEPT !.total_files = Cardinality(found)]
            /\ IF run.max_workers = 1
               THEN /\ bpc' = "sequential"
                    /\ pending' = Listed(found, 1)
                    /\ running' = {}
               ELSE /\ bpc' = "collect"
                    /\ pending' = <<>>
                    /\ running' = found
    /\ UNCHANGED <<output_files, jsonl>>
    /\ UNCHANGED <<storageVars, parserVars, namingVars>>
    /\ UNCHANGED engine

\* Sequential mode, one turn of the loop: process_single_pdf for the next
\* file and the count of its result.
ProcessNextFile(fate) ==
    /\ bpc = "sequential"
    /\ pending # <<>>
    /\ LET f == Head(pending)
           out == process_single_pdf(f, run.skip_existing, output_files, fate)
           tally == Tally(stats, successful_profiles, f, out)
       IN  /\ output_files' = FilesAfter(output_files, f, out.written)
           /\ returns' = returns \cup {Returned(f, output_files, out)}
           /\ IF out.raised
              THEN /\ bpc' = "raised"
                   /\ UNCHANGED <<stats, successful_profiles>>
              ELSE /\ bpc' = bpc
                   /\ stats' = tally.stats
                   /\ successful_profiles' = tally.profiles
    /\ pending' = Tail(pending)
    /\ UNCHANGED <<run, running, completed, jsonl>>
    /\ UNCHANGED <<storageVars, parserVars, namingVars>>
    /\ UNCHANGED engine

\* Thread-pool mode: the worker of file f runs process_single_pdf to its end
\* and its future is done.
WorkerFinishes(f, fate) ==
    /\ bpc = "collect"
    /\ f \in running
    /\ LET out == process_single_pdf(f, run.skip_existing, output_files, fate)
       IN  /\ output_files' = FilesAfter(output_files, f, out.written)
           /\ returns' = returns \cup {Returned(f, output_files, out)}
           /\ completed' = completed \cup {[file |-> f, out |-> out]}
    /\ running' = running \ {f}
    /\ UNCHANGED <<bpc, run, pending, stats, successful_profiles, jsonl>>
    /\ UNCHANGED <<storageVars, parserVars, namingVars>>
    /\ UNCHANGED engine

\* Thread-pool mode, one turn of the loop over as_completed: the collecting
\* thread takes a future that is done and counts its result.
Collect(done) ==
    /\ bpc = "collect"
    /\ done \in completed
    /\ LET tally == Tally(stats, successful_profiles, done.file, done.out)
       IN  /\ stats' = tally.stats
           /\ successful_profiles' = tally.profiles
    /\ completed' = completed \ {done}
    /\ UNCHANGED <<bpc, run, pending, running, output_files, jsonl, returns>>
    /\ UNCHANGED <<storageVars, parserVars, namingVars>>
    /\ UNCHANGED engine

\* All files are counted.
AllCounted ==
    \/ bpc = "sequential" /\ pending = <<>>
    \/ bpc = "collect" /\ running = {} /\ completed = {}

\* A variant of WriteJsonl that opens the JSONL file in append mode.
WriteJsonlAppend ==
    /\ AllCounted
    /\ jsonl' = IF successful_profiles # <<>>
                THEN [exists |-> TRUE,
                      lines |-> jsonl.lines \o successful_profiles]
                ELSE jsonl
    /\ bpc' = "returned"
    /\ UNCHANGED <<run, pending, running, completed, stats,
                   successful_profiles, output_files, returns>>
    /\ UNCHANGED <<storageVars, parserVars, namingVars>>
    /\ UNCHANGED engine

\* The end of process_directory: if successful_profiles is not empty the JSONL
\* file is opened with 'w' and gets one line per profile; the statistics are
\* written and returned.
WriteJsonl ==
    /\ AllCounted
    /\ jsonl' = IF successful_profiles # <<>>
                THEN [exists |-> TRUE, lines |-> successful_profiles]
                ELSE jsonl
    /\ bpc' = "returned"
    /\ UNCHANGED <<run, pending, running, completed, stats,
                   successful_profiles, output_files, returns>>
    /\ UNCHANGED <<storageVars, parserVars, namingVars>>
    /\ UNCHANGED engine

\* The end of process_directory when the writing of the JSONL file fails after
\* `written` lines: the file is left cut and the exception leaves the function.
WriteJsonlFails(written) ==
    /\ AllCounted
    /\ successful_profiles # <<>>
    /\ written < Len(successful_profiles)
    /\ jsonl' = [exists |-> TRUE,
                 lines |-> SubSeq(successful_profiles, 1, written)]
    /\ bpc' = "raised"
    /\ UNCHANGED <<run, pending, running, completed, stats,
                   successful_profiles, output_files, returns>>
    /\ UNCHANGED <<storageVars, parserVars, namingVars>>
    /\ UNCHANGED engine

\* A processor with one worker or with the default three, over an output_dir
\* that may hold the JSON files of earlier runs.
InitBatch ==
    /\ \E workers \in {1, DefaultMaxWorkers} : \E old \in SUBSET Files :
            InitBatchWith(workers, [f \in old |-> "json"])
    /\ InitStorage
    /\ InitParserWith(DefaultMaxRetries)
    /\ InitNamingWith(<<>>)
    /\ InitEngine(NoWeights)

NextBatch ==
    \/ \E found \in SUBSET Files : \E skip_existing \in BOOLEAN :
            ProcessDirectory(found, skip_existing)
    \/ \E fate \in Fates : ProcessNextFile(fate)
    \/ \E f \in Files : \E fate \in Fates : WorkerFinishes(f, fate)
    \/ \E done \in completed : Collect(done)
    \/ WriteJsonl
    \/ \E written \in 0..MaxFiles : WriteJsonlFails(written)

SpecBatch == InitBatch /\ [][NextBatch]_vars

-----------------------------------------------------------------------------
\* The profile id taken from the name of the PDF: main.process_single_pdf and
\* ResumeBatchProcessor.process_single_pdf with _extract_id_from_filename.
\* A name is the sequence of its characters.

Digits == {"1", "7"}

\* n digits, the last one a 7.
DigitRun(n) == [i \in 1..n |-> IF i = n THEN "7" ELSE "1"]

\* What a name has before its trailing digits.
Prefixes ==
    {<<>>, <<"a">>, <<"_">>, <<"a", "_">>, <<"a", "_", "b">>,
     <<"a", "_", "b", "_">>, <<"1", "_", "a", ".">>, <<"a", ".", "b", "_">>}

\* The names of the PDF files.
Names ==
    {prefix \o DigitRun(n) \o <<".", "p", "d", "f">> :
        prefix \in Prefixes, n \in 0..MaxDigits}

\* The id the parser has extracted from the text.
ExtractedId == <<"i", "d">>

\* The positions of the character c in s.
Positions(s, c) == {i \in 1..Len(s) : s[i] = c}

\* The last and the first of a non-empty set of positions.
Last(ps) == CHOOSE p \in ps : \A q \in ps : q <= p
First(ps) == CHOOSE p \in ps : \A q \in ps : q >= p

\* s.split(sep)
Split(s, sep) ==
    LET cuts == Positions(s, sep)
        starts == {1} \cup {i + 1 : i \in cuts}
        PartFrom(a) ==
            LET later == {i \in cuts : i >= a}
            IN  SubSeq(s, a, IF later = {} THEN Len(s) ELSE First(later) - 1)
        Nth(k) == CHOOSE a \in starts : Cardinality({b \in starts : b < a}) = k - 1
    IN  [k \in 1..Cardinality(starts) |-> PartFrom(Nth(k))]

\* s.isdigit()
IsDigit(s) == s # <<>> /\ \A i \in 1..Len(s) : s[i] \in Digits

\* pdf_path.stem: the name without its last suffix; a dot that leads or ends
\* the name starts no suffix.
Stem(name) ==
    LET dots == Positions(name, ".")
    IN  IF dots = {} \/ Last(dots) = 1 \/ Last(dots) = Len(name) THEN name
        ELSE SubSeq(name, 1, Last(dots) - 1)

\* filename.rsplit('.', 1)[0]
RSplitDot(name) ==
    LET dots == Positions(name, ".")
    IN  IF dots = {} THEN name ELSE SubSeq(name, 1, Last(dots) - 1)

\* main.process_single_pdf: profile.id after "Set ID from filename".
SingleModeId(name, extracted) ==
    LET filename_parts == Split(Stem(name), "_")
    IN  IF Len(filename_parts) > 1 /\ IsDigit(filename_parts[Len(filename_parts)])
        THEN filename_parts[Len(filename_parts)]
        ELSE extracted

\* _extract_id_from_filename(filename); <<>> stands for None.
extract_id_from_filename(filename) ==
    LET name_without_ext == RSplitDot(filename)
    IN  IF Positions(name_without_ext, "_") # {}
        THEN LET parts == Split(name_without_ext, "_")
                 potential_id == parts[Len(parts)]
             IN  IF IsDigit(potential_id) /\ Len(potential_id) >= MinIdDigits
                 THEN potential_id
                 ELSE <<>>
        ELSE <<>>

\* ResumeBatchProcessor.process_single_pdf: profile.id after "Override ID with
\* filename timestamp".
BatchModeId(name, extracted) ==
    LET filename_id == extract_id_from_filename(name)
    IN  IF filename_id # <<>> THEN filename_id ELSE extracted

\* main.process_single_pdf(pdf_path, ...) up to the id of the profile.
SingleMode ==
    /\ ~single_id.set
    /\ single_id' = [set |-> TRUE, id |-> SingleModeId(pdf_name, ExtractedId)]
    /\ UNCHANGED <<pdf_name, batch_id>>
    /\ UNCHANGED <<storageVars, parserVars, batchVars>>
    /\ UNCHANGED engine

\* ResumeBatchProcessor.process_single_pdf(pdf_path) up to the id of the
\* profile.
BatchMode ==
    /\ ~batch_id.set
    /\ batch_id' = [set |-> TRUE, id |-> BatchModeId(pdf_name, ExtractedId)]
    /\ UNCHANGED <<pdf_name, single_id>>
    /\ UNCHANGED <<storageVars, parserVars, batchVars>>
    /\ UNCHANGED engine

\* One PDF file, about to be processed in both modes.
InitNaming ==
    /\ \E name \in Names : InitNamingWith(name)
    /\ InitStorage
    /\ InitParserWith(DefaultMaxRetries)
    /\ InitBatchWith(DefaultMaxWorkers, {})
    /\ InitEngine(NoWeights)

NextNaming ==
    \/ SingleMode
    \/ BatchMode

SpecNaming == InitNaming /\ [][NextNaming]_vars

-----------------------------------------------------------------------------
\* What the claims speak about.

\* calculate_scores has returned.
Aggregated == pc \in {"rank", "done"}

RECURSIVE Flatten(_)
\* The matches of all fields in the order calculate_scores visits them.
Flatten(results) ==
    IF results = <<>> THEN <<>>
    ELSE Head(results).matches \o Flatten(Tail(results))

AllMatches == Flatten(all_field_results)

\* The positions in AllMatches of the matches of resume id in field f.
MatchesOf(id, f) ==
    LET am == AllMatches
    IN  {i \in 1..Len(am) : am[i].resume_id = id /\ am[i].field = f}

\* The fields in which resume id has at least one match.
MatchedFields(id) ==
    LET am == AllMatches
    IN  {am[i].field : i \in {j \in 1..Len(am) : am[j].resume_id = id}}

\* The similarity 1 - d/2 clamped at 0, times 2 * DistOne, without division.
ScaledSimilarity(d) == Max(0, 2 * DistOne * SimOne - d * SimOne)

\* The largest similarity among the matches of resume id in field f.
BestSimilarity(id, f) ==
    LET am == AllMatches
        sims == {similarity(am[i].distance) : i \in MatchesOf(id, f)}
    IN  CHOOSE best \in sims : \A sim \in sims : sim <= best

\* The records of the aggregator's output, as a set.
Records == {candidates[i] : i \in 1..Len(candidates)}

\* C1: after calculate_scores, for every candidate and every field in which it
\* has a match, field_scores[f] is the largest similarity among the candidate's
\* matches in f, in whatever order the oracle returned them.
C1_FieldScoreIsMax ==
    Aggregated =>
        \A c \in Records : \A f \in MatchedFields(c.resume_id) :
            /\ f \in DOMAIN c.field_scores
            /\ c.field_scores[f] = BestSimilarity(c.resume_id, f)

\* A candidate whose better match in a field came after a worse one.
C1_Witness ==
    /\ pc = "done"
    /\ \E c \in Records : \E f \in Fields : \E i, j \in MatchesOf(c.resume_id, f) :
        /\ i < j
        /\ AllMatches[i].distance > AllMatches[j].distance
        /\ c.field_scores[f] = similarity(AllMatches[j].distance)
        /\ c.field_scores[f] > similarity(AllMatches[i].distance)

\* C2: every candidate's total_score is the sum over the fields it matched of
\* field_scores[f] * weight(f), unmatched fields adding nothing, and it never
\* exceeds the sum of all weights, which is 1.0 with the default table.
C2_TotalIsWeightedSum ==
    Aggregated =>
        \A c \in Records :
            LET part(f) == IF f \in MatchedFields(c.resume_id)
                           THEN c.field_scores[f] * field_weights[f]
                           ELSE 0
                all == field_weights["summary"] + field_weights["skills"]
                       + field_weights["work_history"]
                       + field_weights["project_history"]
                       + field_weights["education"]
            IN  /\ c.total_score = part("summary") + part("skills")
                                   + part("work_history")
                                   + part("project_history") + part("education")
                /\ c.total_score <= SimOne * all
                /\ all = WeightOne

\* A candidate matched in two fields with different weights, both counting.
C2_Witness ==
    /\ pc = "done"
    /\ \E c \in Records :
        /\ MatchedFields(c.resume_id) = {"skills", "education"}
        /\ c.field_scores["skills"] = 16
        /\ c.field_scores["education"] = SimOne
        /\ c.total_score = 16 * 30 + SimOne * 5

\* C3: in the list search returns, a record with a strictly higher total_score
\* stands before every record with a strictly lower one, and no candidate left
\* out has a strictly higher total_score than a returned one.
C3_RankedDescending ==
    pc = "done" =>
        /\ \A i, j \in 1..Len(result) :
            result[i].total_score > result[j].total_score => i < j
        /\ \A c \in Records : \A i \in 1..Len(result) :
            (\A j \in 1..Len(result) : result[j].resume_id # c.resume_id)
                => c.total_score <= result[i].total_score

\* The candidate created second has the higher score and k = 1 returns it alone.
C3_Witness ==
    /\ pc = "done"
    /\ num_results = 1
    /\ Len(candidates) = 2
    /\ candidates[1].total_score < candidates[2].total_score
    /\ result = <<candidates[2]>>

\* C4: for every k >= 0 the ranking returns exactly min(k, |records|) entries:
\* none when k = 0 or when there are no records.
C4_ReturnsMinKN ==
    (pc = "done" /\ num_results >= 0) =>
        /\ Len(result) = Min(num_results, Len(candidates))
        /\ (num_results = 0 \/ candidates = <<>>) => result = <<>>

\* Two candidates and k = 1: one entry is returned.
C4_Witness ==
    /\ pc = "done"
    /\ num_results = 1
    /\ Len(candidates) = 2
    /\ Len(result) = 1

\* C5: a search called with k < 0 fails fast: it never returns a result list.
C5_NegativeKNeverReturns ==
    pc = "done" => num_results >= 0

\* C6: when the oracle fails for a field, the failure leaves search and the
\* search is over: nothing is aggregated or returned, and a search that does
\* aggregate or return has queried every configured field without a failure.
C6_OracleFailureAborts ==
    /\ oracle_error # "none" =>
        /\ pc = "failed"
        /\ error = oracle_error
        /\ candidates = <<>>
        /\ result = <<>>
    /\ Aggregated =>
        /\ error = "none"
        /\ [i \in 1..Len(all_field_results) |-> all_field_results[i].field]
            = FieldOrder

\* The oracle failed after some fields had already returned matches.
C6_Witness ==
    /\ pc = "failed"
    /\ error = "OracleQueryFailure"
    /\ fi = 2
    /\ Len(AllMatches) = 2

\* C7: the scorer returns max(0, 1 - d/2) for every distance d >= 0: a value in
\* [0, 1], 1 at distance 0, 0.5 at distance 1, 0 at distance 2 and above.  It
\* is stated of the scorer at the distance of every match the oracle returned,
\* and of the score stored for a candidate's only match in a field.
C7_SimilarityFormula ==
    Aggregated =>
        LET am == AllMatches
        IN  /\ \A i \in 1..Len(am) :
                LET d == am[i].distance
                    sim == similarity(d)
                IN  /\ 0 <= sim /\ sim <= SimOne
                    /\ 2 * DistOne * sim = ScaledSimilarity(d)
                    /\ d = 0 => sim = SimOne
                    /\ d = DistOne => 2 * sim = SimOne
                    /\ d >= 2 * DistOne => sim = 0
            /\ \A c \in Records : \A i \in 1..Len(am) :
                MatchesOf(c.resume_id, am[i].field) = {i} =>
                    2 * DistOne * c.field_scores[am[i].field]
                        = ScaledSimilarity(am[i].distance)

\* A stored score of 0 that comes from a distance above 2, and one of 0.5.
C7_Witness ==
    /\ pc = "done"
    /\ \E c, e \in Records : \E f, g \in Fields :
        /\ \E i \in MatchesOf(c.resume_id, f) :
            /\ MatchesOf(c.resume_id, f) = {i}
            /\ AllMatches[i].distance = 3 * DistOne
            /\ c.field_scores[f] = 0
        /\ \E i \in MatchesOf(e.resume_id, g) :
            /\ MatchesOf(e.resume_id, g) = {i}
            /\ AllMatches[i].distance = DistOne
            /\ 2 * e.field_scores[g] = SimOne

\* C8: every record of the aggregator's output has fields_matched equal to the
\* number of keys of field_scores, at least 1 and at most the number of
\* configured fields.
C8_FieldsMatchedCount ==
    Aggregated =>
        \A c \in Records :
            /\ c.fields_matched = Cardinality(DOMAIN c.field_scores)
            /\ 1 <= c.fields_matched
            /\ c.fields_matched <= Len(FieldOrder)

\* A record matched in two fields next to one matched in a single field is out
\* of reach of two matches; this one is matched in two fields.
C8_Witness ==
    /\ pc = "done"
    /\ \E c \in Records :
        /\ c.fields_matched = 2
        /\ Cardinality(MatchedFields(c.resume_id)) = 2

\* C9: the aggregator's output has a record for an id exactly when the id
\* occurs in a match of some field's list, and one record only; a field whose
\* list is empty creates none.
C9_RecordIffMatched ==
    Aggregated =>
        /\ {c.resume_id : c \in Records}
            = LET am == AllMatches IN {am[i].resume_id : i \in 1..Len(am)}
        /\ \A i, j \in 1..Len(candidates) :
            candidates[i].resume_id = candidates[j].resume_id => i = j

\* One id is matched (with similarity 0), the other is not, and fields came
\* back empty.
C9_Witness ==
    /\ pc = "done"
    /\ \E i \in 1..Len(all_field_results) : all_field_results[i].matches = <<>>
    /\ Len(candidates) = 1
    /\ candidates[1].resume_id = "r1"
    /\ candidates[1].total_score = 0
    /\ \A i \in 1..Len(AllMatches) : AllMatches[i].resume_id # "r2"

\* The first match of resume id, in the order calculate_scores visits matches.
FirstMatchOf(id) ==
    LET am == AllMatches
    IN  am[CHOOSE i \in 1..Len(am) :
            /\ am[i].resume_id = id
            /\ \A j \in 1..(i - 1) : am[j].resume_id # id]

\* C10: a candidate is identified by its resume id alone: matches with one id
\* and different names are merged into one record, which carries the name of
\* the first match seen for the id, and matches with one name and different
\* ids give different records.
C10_IdentityIsResumeId ==
    Aggregated =>
        LET am == AllMatches
        IN  /\ \A i, j \in 1..Len(candidates) :
                candidates[i].resume_id = candidates[j].resume_id => i = j
            /\ \A c \in Records : c.name = FirstMatchOf(c.resume_id).name
            /\ \A i, j \in 1..Len(am) :
                am[i].resume_id # am[j].resume_id =>
                    \E c, e \in Records :
                        /\ c # e
                        /\ c.resume_id = am[i].resume_id
                        /\ e.resume_id = am[j].resume_id

\* Two matches of one id under different names are merged under the first name.
C10_Witness ==
    /\ pc = "done"
    /\ Len(AllMatches) = 2
    /\ AllMatches[1].resume_id = AllMatches[2].resume_id
    /\ AllMatches[1].name = "Bob"
    /\ AllMatches[2].name = "Ann"
    /\ Len(candidates) = 1
    /\ candidates[1].name = "Bob"

\* The fields' results with the empty lists left out.
NonEmptyResults ==
    SelectSeq(all_field_results, LAMBDA r : r.matches # <<>>)

\* C11: an empty oracle result for a field is no error: nothing but a failure
\* of the oracle makes search fail, the ranking returned is the one built from
\* the fields that did return matches, and when no field returned a match the
\* search returns the empty list.
C11_EmptyResultIsNoError ==
    /\ error # "none" => oracle_error # "none"
    /\ pc = "done" =>
        /\ error = "none"
        /\ result = TopCandidates(
                        calculate_scores(field_weights, NonEmptyResults),
                        num_results)
        /\ AllMatches = <<>> => result = <<>>

\* The first field came back empty and the ranking is built from another.
C11_Witness ==
    /\ pc = "done"
    /\ error = "none"
    /\ all_field_results[1].matches = <<>>
    /\ all_field_results[2].matches # <<>>
    /\ Len(result) = 1

\* C13: aggregation never starts before the oracle queries of all configured
\* fields have completed: a search that has aggregated, or that holds a
\* candidate record, has the answers of all fields.
C13_AggregationAfterAllQueries ==
    (Aggregated \/ candidates # <<>>) =>
        /\ fi = Len(FieldOrder)
        /\ Len(all_field_results) = Len(FieldOrder)
        /\ Len(calls) = Len(FieldOrder)

\* Aggregation has run and holds a record that only the last field's answer
\* gives.
C13_Witness ==
    /\ pc = "rank"
    /\ Len(candidates) = 1
    /\ DOMAIN candidates[1].field_scores = {FieldOrder[Len(FieldOrder)]}

\* The match of resume id in field f whose score and excerpt are to be stored:
\* the first, in oracle order, among those of the largest similarity.
SupplyingMatch(id, f) ==
    LET am == AllMatches
        of == {i \in 1..Len(am) : am[i].resume_id = id /\ am[i].field = f}
        best == CHOOSE i \in of :
                    \A j \in of :
                        similarity(am[j].distance) <= similarity(am[i].distance)
        first == CHOOSE i \in of :
                    /\ similarity(am[i].distance)
                        = similarity(am[best].distance)
                    /\ \A j \in of :
                        similarity(am[j].distance)
                            = similarity(am[best].distance) => i <= j
    IN  am[first]

\* C16: when several matches of a candidate in a field have equal similarity,
\* the first seen in oracle order is kept: the stored score and excerpt are
\* those of the first match of the largest similarity.
C16_FirstSeenKeptOnTie ==
    Aggregated =>
        \A c \in Records : \A f \in MatchedFields(c.resume_id) :
            LET m == SupplyingMatch(c.resume_id, f)
            IN  /\ c.field_scores[f] = similarity(m.distance)
                /\ c.field_matches[f] = Excerpt(m.content)

\* Two matches of one candidate in one field tie, with different content, and
\* the excerpt is that of the first.
C16_Witness ==
    /\ pc = "done"
    /\ Len(AllMatches) = 2
    /\ AllMatches[1].field = AllMatches[2].field
    /\ AllMatches[1].resume_id = AllMatches[2].resume_id
    /\ AllMatches[1].distance = AllMatches[2].distance
    /\ AllMatches[1].content = ShortContent
    /\ AllMatches[2].content = LongContent
    /\ candidates[1].field_matches[AllMatches[1].field]
        = <<"a", "b", ".", ".", ".">>

\* C17: the stored excerpts have the field keys of field_scores, and the
\* excerpt of a field is the first 150 characters of the content of the match
\* that supplied the stored score, followed by "...", also when the content is
\* shorter than 150 characters.
C17_ExcerptIsPrefixPlusMarker ==
    Aggregated =>
        \A c \in Records :
            /\ DOMAIN c.field_matches = DOMAIN c.field_scores
            /\ \A f \in MatchedFields(c.resume_id) :
                LET content == SupplyingMatch(c.resume_id, f).content
                    excerpt == c.field_matches[f]
                    n == Min(ExcerptLen, Len(content))
                IN  /\ Len(excerpt) = n + 3
                    /\ SubSeq(excerpt, 1, n) = SubSeq(content, 1, n)
                    /\ SubSeq(excerpt, n + 1, n + 3) = <<".", ".", ".">>

\* One candidate with a short document in one field, marked all the same, and
\* a document longer than 150 characters in another, cut.
C17_Witness ==
    /\ pc = "done"
    /\ \E c \in Records : \E f, g \in DOMAIN c.field_matches :
        /\ c.field_matches[f] = <<"a", "b", ".", ".", ".">>
        /\ Len(c.field_matches[g]) = ExcerptLen + 3
        /\ SupplyingMatch(c.resume_id, g).content = LongContent

\* C18: aggregation leaves the match lists it is given unchanged, and ranking
\* leaves the aggregated records and the match lists unchanged.
C18_InputsNotMutated ==
    [][/\ (pc = "query" /\ pc' = "rank") =>
            all_field_results' = all_field_results
       /\ (pc = "rank" /\ pc' = "done") =>
            /\ candidates' = candidates
            /\ all_field_results' = all_field_results]_vars

\* Ranking has returned the records in another order than the aggregator
\* holds them, and has cut one; the aggregator's records are as it left them.
C18_Witness ==
    /\ pc = "done"
    /\ num_results = 1
    /\ Len(candidates) = 2
    /\ result = <<candidates[2]>>
    /\ candidates = calculate_scores(field_weights, all_field_results)

\* The oracle queries of one search: one per configured field, in the
\* configured order, each capped at 40 results.
ExpectedCalls ==
    <<[field |-> "summary", n_results |-> 40],
      [field |-> "skills", n_results |-> 40],
      [field |-> "work_history", n_results |-> 40],
      [field |-> "project_history", n_results |-> 40],
      [field |-> "education", n_results |-> 40]>>

\* The two calls of search: the running one and the suspended one.
BothCalls == {Current, other}

\* C12: every invocation of search, a repeat of an earlier identical one
\* included, issues exactly one oracle query per configured field, in the
\* configured order, each with the cap 40; nothing of an earlier search is
\* reused.
C12_OneQueryPerFieldEverySearch ==
    \A call \in BothCalls :
        /\ Len(call.calls) <= Len(ExpectedCalls)
        /\ call.calls = SubSeq(ExpectedCalls, 1, Len(call.calls))
        /\ call.pc \in {"rank", "done"} => call.calls = ExpectedCalls
        /\ call.pc = "query" => Len(call.calls) = call.fi
        /\ \A i \in 1..Len(call.all_field_results) :
            /\ call.all_field_results[i].field = call.calls[i].field
            /\ Len(call.all_field_results[i].matches) <= call.calls[i].n_results

\* A search has finished, and a second one with the same k that got the same
\* answers has finished too, after all its own queries.
C12_Witness ==
    /\ other.pc = "done"
    /\ pc = "done"
    /\ num_results = other.num_results
    /\ all_field_results = other.all_field_results
    /\ Len(AllMatches) = 2
    /\ calls = ExpectedCalls

C15_NoSharedMutableState ==
    /\ field_weights = DefaultFieldWeights
    /\ \A call \in BothCalls :
        /\ (call.pc = "query" /\ call.fi = 0) =>
            /\ call.all_field_results = <<>>
            /\ call.candidates = <<>>
            /\ call.result = <<>>
        /\ call.pc \in {"rank", "done"} =>
            call.candidates =
                calculate_scores(DefaultFieldWeights, call.all_field_results)
        /\ call.pc = "done" =>
            call.result =
                TopCandidates(
                    calculate_scores(DefaultFieldWeights, call.all_field_results),
                    call.num_results)

\* One search is suspended between two of its queries, holding matches, and
\* the other, with other answers, has run to its end meanwhile.
C15_Witness ==
    /\ other.pc = "query"
    /\ other.fi = 3
    /\ Len(other.all_field_results[2].matches) = 2
    /\ pc = "done"
    /\ Len(all_field_results[2].matches) = 1
    /\ Len(result) = 1

\* C19: a failure to fetch a ranked candidate's record never cancels the
\* ranking: search_resumes returns the complete ranked list as search gave
\* it, and every candidate of the list has had its turn of the display, those
\* after a failed one too.
C19_EnrichmentFailureKeepsRanking ==
    /\ epc \in {"display", "returned"} =>
        /\ pc = "done"
        /\ result = TopCandidates(candidates, num_results)
        /\ Len(shown) <= Len(result)
        /\ \A i \in 1..Len(shown) : shown[i].resume_id = result[i].resume_id
    /\ epc = "returned" =>
        /\ returned = result
        /\ Len(shown) = Len(result)

\* The fetch failed for the first of two ranked candidates, the second was
\* displayed with its summary, and both were returned.
C19_Witness ==
    /\ epc = "returned"
    /\ Len(result) = 2
    /\ shown[1].display \in {"warning", "No summary available"}
    /\ shown[2].display = "summary"
    /\ returned = result

\* The table the engine is to use: the one supplied, the defaults if none.
ConfiguredWeights ==
    IF supplied_weights = NoWeights THEN DefaultFieldWeights
    ELSE supplied_weights

\* C20: the weight table can be supplied to the engine at construction, an
\* engine built without one uses the reference defaults, and total_score is
\* computed with the table the engine was given.
C20_SuppliedWeightsUsed ==
    /\ field_weights = ConfiguredWeights
    /\ Aggregated =>
        \A c \in Records :
            c.total_score = WeightedSum(ConfiguredWeights, c.field_scores, 1)

\* C21: with the default weights, a candidate whose only matches are skills at
\* distance 0.2 and summary at distance 0.4 gets the field similarities 0.9 and
\* 0.8, the total_score 0.51 and fields_matched 2.
C21_WorkedExample ==
    (Aggregated /\ field_weights = DefaultFieldWeights) =>
        \A c \in Records :
            LET am == AllMatches
                mine == {i \in 1..Len(am) : am[i].resume_id = c.resume_id}
            IN  (/\ {am[i].field : i \in mine} = {"skills", "summary"}
                 /\ \A i \in mine :
                        /\ am[i].field = "skills" => 10 * am[i].distance = 2 * DistOne
                        /\ am[i].field = "summary" => 10 * am[i].distance = 4 * DistOne)
                => /\ DOMAIN c.field_scores = {"skills", "summary"}
                   /\ 10 * c.field_scores["skills"] = 9 * SimOne
                   /\ 10 * c.field_scores["summary"] = 8 * SimOne
                   /\ 100 * c.total_score = 51 * SimOne * WeightOne
                   /\ c.fields_matched = 2

\* The candidate of the example next to a second candidate, ranked.
C21_Witness ==
    /\ pc = "done"
    /\ Len(AllMatches) = 2
    /\ \E i, j \in 1..2 :
        /\ AllMatches[i] = ToMatch("skills", Row("r1", "Ann", ShortContent, 2))
        /\ AllMatches[j] = ToMatch("summary", Row("r1", "Ann", ShortContent, 4))
    /\ Len(candidates) = 1
    /\ candidates[1].total_score = 1020
    /\ candidates[1].fields_matched = 2

\* C22: in every reachable state of the storage, after construction and after
\* any number of reset_collection calls, the collection that query_resumes
\* searches is configured for cosine distance, so every distance handed to the
\* scorer lies in [0, 2].
C22_CollectionIsCosine ==
    /\ collection_space # "deleted" => collection_space = "cosine"
    /\ LET am == AllMatches
       IN  \A i \in 1..Len(am) :
            am[i].distance >= 0 /\ am[i].distance <= 2 * DistOne

\* The positions of the LLM calls in trace.
CallPositions == {i \in 1..Len(trace) : trace[i].op = "call"}

\* The number of LLM calls up to position i of trace.
CallsUpTo(i) == Cardinality({j \in CallPositions : j <= i})

\* C23: extract_resume_profile makes at most max_retries calls to the LLM: it
\* returns on the first successful call without any further attempt, sleeps
\* 2^attempt seconds (1, 2, 4, ...) after each failed attempt except the last,
\* and raises InstructorParsingError once all max_retries attempts have failed;
\* a text shorter than 50 stripped characters raises it before any call.
C23_BoundedRetriesWithBackoff ==
    /\ Cardinality(CallPositions) <= max_retries
    /\ (ppc # "idle" /\ Len(Strip(text)) < MinTextLen) =>
            ppc = "raised" /\ trace = <<>>
    /\ \A i \in CallPositions :
        IF trace[i].outcome = "ok"
        THEN /\ i = Len(trace)
             /\ ppc = "returned"
        ELSE IF CallsUpTo(i) < max_retries
             THEN /\ i < Len(trace)
                  /\ trace[i + 1] = Sleep(Pow2(CallsUpTo(i) - 1))
             ELSE /\ i = Len(trace)
                  /\ ppc = "raised"
    /\ \A i \in 1..Len(trace) :
        trace[i].op = "sleep" => (i > 1 /\ trace[i - 1].op = "call")
    /\ ppc = "returned" =>
            (trace # <<>> /\ trace[Len(trace)] = Call("ok"))
    /\ (ppc = "raised" /\ Len(Strip(text)) >= MinTextLen) =>
            /\ Cardinality(CallPositions) = max_retries
            /\ \A i \in CallPositions : trace[i].outcome # "ok"

\* All four attempts of a parser with max_retries = 4 failed, with the sleeps
\* 1, 2 and 4 between them and none after the last.
C23_Witness ==
    /\ ppc = "raised"
    /\ max_retries = 4
    /\ Len(trace) = 7
    /\ trace[2] = Sleep(1)
    /\ trace[4] = Sleep(2)
    /\ trace[6] = Sleep(4)
    /\ trace[7].op = "call"

\* C24: process_single_pdf of the batch processor never raises: every failure
\* of extraction, text validation, LLM parsing or file writing is returned as
\* (False, None, non-empty error message); it returns (True, profile, None)
\* only after the per-file JSON has been written, and (True, None, "skipped")
\* only for a skipped file.
C24_SinglePdfNeverRaises ==
    \A r \in returns :
        /\ ~r.out.raised
        /\ ~r.out.success =>
            /\ r.out.profile = <<>>
            /\ r.out.error \notin {"None", "", "skipped"}
        /\ r.out.written # "json" => (~r.out.success \/ r.out.profile = <<>>)
        /\ (r.out.success /\ r.out.profile # <<>>) =>
            /\ r.out.error = "None"
            /\ r.out.written = "json"
            /\ r.after = "json"
        /\ (r.out.success /\ r.out.profile = <<>>) =>
            /\ r.out.error = "skipped"
            /\ r.skip_existing
            /\ r.existed

\* One file's output was cut half way and the call returned the failure; the
\* other file's call returned its profile after the write.
C24_Witness ==
    \E r, q \in returns :
        /\ r.out.written = "partial"
        /\ r.out.success = FALSE
        /\ r.out.error = "Unexpected error"
        /\ q.out.success
        /\ q.out.profile = <<Profile(q.file)>>
        /\ q.after = "json"

\* C25: with skip_existing true, process_single_pdf for a PDF whose output JSON
\* already exists returns (True, None, "skipped") without calling the text
\* extractor or the LLM parser and leaves the existing output file unchanged.
C25_SkipExistingTouchesNothing ==
    \A r \in returns :
        (r.skip_existing /\ r.existed) =>
            /\ r.out.success
            /\ r.out.profile = <<>>
            /\ r.out.error = "skipped"
            /\ ~r.out.extracted
            /\ ~r.out.parsed
            /\ r.out.written = "no"
            /\ r.after = r.before
            /\ r.file \in DOMAIN output_files

\* A file whose output an earlier run had cut half way is skipped, and the cut
\* file is still there.
C25_Witness ==
    \E r \in returns :
        /\ r.skip_existing
        /\ r.before = "partial"
        /\ r.out.error = "skipped"
        /\ output_files[r.file] = "partial"

\* The number of files the collecting thread has counted.
Counted == stats.successful + stats.failed + stats.skipped

\* C26: when process_directory returns, successful + failed + skipped =
\* total_files and the number of recorded errors equals failed, in sequential
\* mode and in thread-pool mode under every completion order of the workers;
\* every file is counted once, by the collecting thread.
C26_CountersAddUp ==
    /\ Len(stats.errors) = stats.failed
    /\ Len(successful_profiles) = stats.successful
    /\ bpc = "sequential" => Counted + Len(pending) = stats.total_files
    /\ bpc = "collect" =>
            Counted + Cardinality(running) + Cardinality(completed)
                = stats.total_files
    /\ bpc = "returned" => Counted = stats.total_files

\* A run of the thread pool over two files has returned: the second file's
\* worker finished first and its profile was collected first.
C26_Witness ==
    /\ bpc = "returned"
    /\ run.max_workers = DefaultMaxWorkers
    /\ stats.total_files = 2
    /\ stats.successful = 2
    /\ successful_profiles = <<Profile(2), Profile(1)>>

\* The profiles the calls of process_single_pdf of this run returned.
ExtractedProfiles ==
    {r.out.profile[1] : r \in {q \in returns : q.out.profile # <<>>}}

\* C27: a process_directory run rewrites the JSONL file only if at least one
\* profile was newly extracted in that run, and the file then holds exactly
\* one line per profile extracted in that run; skipped files contribute no
\* line, so the JSONL holds only the last non-empty run's profiles and a run
\* where everything is skipped leaves it unchanged.
C27_JsonlHoldsLastNonEmptyRun ==
    /\ bpc \in {"sequential", "collect"} => jsonl = run.jsonl_before
    /\ bpc = "returned" =>
        /\ {successful_profiles[i] : i \in 1..Len(successful_profiles)}
            = ExtractedProfiles
        /\ Len(successful_profiles) = Cardinality(ExtractedProfiles)
        /\ IF successful_profiles # <<>>
           THEN jsonl = [exists |-> TRUE, lines |-> successful_profiles]
           ELSE jsonl = run.jsonl_before

\* The JSONL held the line of the first file; in this run the first file was
\* skipped and the second extracted, and the JSONL holds the second's line
\* alone.
C27_Witness ==
    /\ bpc = "returned"
    /\ run.jsonl_before = [exists |-> TRUE, lines |-> <<Profile(1)>>]
    /\ stats.skipped = 1
    /\ stats.successful = 1
    /\ jsonl = [exists |-> TRUE, lines |-> <<Profile(2)>>]

\* The embeddable fields of a resume that have content once stripped.
NonEmptyFields(resume) ==
    {embeddable_fields[i] : i \in
        {j \in 1..Len(embeddable_fields) :
            LET content == Get(resume, embeddable_fields[j])
            IN  content.type = "str" /\ Strip(content.chars) # <<>>}}

\* C28: store_resume never raises and returns True exactly when at least one
\* field embedding of the resume was added to the collection; it returns False
\* and adds nothing when the resume has no non-empty embeddable field or when
\* adding to the collection fails, and a field whose embedding call fails is
\* left out while the remaining fields are still stored.
C28_StoreResumeNeverRaises ==
    last_store.called =>
        /\ last_store.ret \in {"True", "False"}
        /\ last_store.ret = "True" <=> last_store.added # <<>>
        /\ (NonEmptyFields(last_store.resume) = {} \/ ~last_store.add_ok) =>
            /\ last_store.ret = "False"
            /\ last_store.added = <<>>
        /\ last_store.ret = "True" =>
            {last_store.added[i].field : i \in 1..Len(last_store.added)}
                = NonEmptyFields(last_store.resume) \ last_store.fails

\* C29: after store_resumes_from_jsonl, stats.total_embeddings equals the
\* number of field embeddings actually added to the collection during the
\* call, and successful + failed equals the number of lines read from the
\* file.
C29_StatsMatchWhatWasStored ==
    jpc = "returned" =>
        /\ store_stats.total_embeddings = ingested.added
        /\ store_stats.successful + store_stats.failed = ingested.read

\* C30: for every PDF file name, main.process_single_pdf and
\* ResumeBatchProcessor.process_single_pdf make the same decision about the
\* profile id: both override it with the same trailing underscore-separated
\* numeric part of the name, or both keep the extracted id.
C30_ModesAgreeOnId ==
    (single_id.set /\ batch_id.set) => single_id.id = batch_id.id

====
